---- MODULE Spec2Model ----
(***************************************************************************)
(* A model of netbox/ipam/models/vlans.py: VLANGroup (VID ranges, clean,   *)
(* save, get_available_vids, get_next_available_vid) and VLAN (clean and   *)
(* the unique constraints of its Meta), over the two tables that hold      *)
(* them.                                                                   *)
(***************************************************************************)
EXTENDS Integers, Sequences, FiniteSets, TLC

VARIABLES
    groups,     \* the ipam_vlangroup table: pk -> row
    vlans,      \* the ipam_vlan table: pk -> row
    group,      \* the VLANGroup instance a caller holds in memory
    cleaned,    \* what VLANGroup.clean() last did on `group`
    available,  \* what get_available_vids() last returned, <<list>> (<<>>: not called)
    next,       \* what get_next_available_vid() last returned, <<value>>, value <<>> for None
    saved,      \* what VLANGroup.save() last did on `group`
    vlan,       \* caller -> the VLAN instance it holds in memory
    result      \* caller -> what its last call did

vars == <<groups, vlans, group, cleaned, saved, available, next, vlan, result>>

----------------------------------------------------------------------------
(* Values *)

\* None for a foreign key, a primary key or scope_id (primary keys start at 1)
None == 0

\* ipam.constants; the help texts and docstrings of vlans.py say "(1-4094)"
VLAN_VID_MIN == 1
VLAN_VID_MAX == 4094

\* psycopg's NumericRange(lower, upper, bounds): the two letters of bounds
NumericRange(lower, upper, bounds) ==
    [lower |-> lower, upper |-> upper,
     lower_inc |-> (bounds[1] = "["), upper_inc |-> (bounds[2] = "]")]

BoundsKinds == {<<"[", "]">>, <<"[", ")">>, <<"(", "]">>, <<"(", ")">>}

\* x in r, NumericRange.__contains__
RangeContains(r, x) ==
    /\ IF r.lower_inc THEN x >= r.lower ELSE x > r.lower
    /\ IF r.upper_inc THEN x <= r.upper ELSE x < r.upper

default_vid_ranges == << NumericRange(VLAN_VID_MIN, VLAN_VID_MAX, <<"[", "]">>) >>

\* the outcome of a call: no error, or the exception raised first
Ok == [field |-> "", code |-> "ok"]
NotRun == [field |-> "", code |-> "not_run"]
ValidationError(field, code) == [field |-> field, code |-> code]
IntegrityError(constraint) == [field |-> constraint, code |-> "IntegrityError"]
DataError == [field |-> "vid_ranges", code |-> "DataError"]

----------------------------------------------------------------------------
(* VLANGroup *)

\* Python truth of an optional value: None and 0 are false
Truthy(x) == x # None

lower_vid(r) == IF r.lower_inc THEN r.lower ELSE r.lower + 1
upper_vid(r) == IF r.upper_inc THEN r.upper ELSE r.upper - 1

\* CheckRange with the bounds read as if both were inclusive
CheckRange_inclusive(r) ==
    IF r.lower < VLAN_VID_MIN THEN ValidationError("vid_ranges", "OutOfBounds")
    ELSE IF r.upper > VLAN_VID_MAX THEN ValidationError("vid_ranges", "OutOfBounds")
    ELSE IF r.lower > r.upper THEN ValidationError("vid_ranges", "InvertedRange")
    ELSE Ok

\* the body of the loop of VLANGroup.clean for one vid_range
CheckRange(r) ==
    IF lower_vid(r) < VLAN_VID_MIN THEN ValidationError("vid_ranges", "OutOfBounds")
    ELSE IF upper_vid(r) > VLAN_VID_MAX THEN ValidationError("vid_ranges", "OutOfBounds")
    ELSE IF lower_vid(r) > upper_vid(r) THEN ValidationError("vid_ranges", "InvertedRange")
    ELSE Ok

\* utilities.data.check_ranges_overlap: some two ranges of the list share an integer
check_ranges_overlap(ranges) ==
    \E i, j \in 1..Len(ranges) :
        /\ i < j
        /\ lower_vid(ranges[i]) <= upper_vid(ranges[j])
        /\ lower_vid(ranges[j]) <= upper_vid(ranges[i])

\* the loop of VLANGroup.clean: the error of the first range that has one
RECURSIVE CheckRanges(_)
CheckRanges(ranges) ==
    IF ranges = <<>> THEN Ok
    ELSE IF CheckRange(Head(ranges)) # Ok THEN CheckRange(Head(ranges))
    ELSE CheckRanges(Tail(ranges))

VLANGroup_clean(g) ==
    IF g.scope_type # "none" /\ ~Truthy(g.scope_id)
        THEN ValidationError("__all__", "IncompleteScope")
    ELSE IF Truthy(g.scope_id) /\ g.scope_type = "none"
        THEN ValidationError("__all__", "IncompleteScope")
    ELSE IF CheckRanges(g.vid_ranges) # Ok THEN CheckRanges(g.vid_ranges)
    ELSE IF g.vid_ranges # <<>> /\ check_ranges_overlap(g.vid_ranges)
        THEN ValidationError("vid_ranges", "Overlap")
    ELSE Ok

\* the loop of VLANGroup.save
RECURSIVE total_vlan_ids(_)
total_vlan_ids(ranges) ==
    IF ranges = <<>> THEN 0
    ELSE (Head(ranges).upper - Head(ranges).lower + 1) + total_vlan_ids(Tail(ranges))

\* range(lower, upper) of Python
PyRange(lower, upper) == lower .. (upper - 1)

\* the set get_available_vids builds from the ranges
RECURSIVE RangesUnion(_)
RangesUnion(ranges) ==
    IF ranges = <<>> THEN {}
    ELSE PyRange(Head(ranges).lower, Head(ranges).upper) \cup RangesUnion(Tail(ranges))

\* VLAN.objects.filter(group=self).values_list('vid', flat=True)
GroupVids(table, gpk) == { table[pk].vid : pk \in { p \in DOMAIN table : table[p].group = gpk } }

SetMin(S) == CHOOSE x \in S : \A y \in S : x <= y

\* sorted(S) of a set S of integers that lie in lo..hi
Sorted(S, lo, hi) ==
    LET all == [i \in 1..(hi - lo + 1) |-> lo + i - 1]
        keep(x) == x \in S
    IN SelectSeq(all, keep)

RECURSIVE LowestLower(_)
LowestLower(ranges) ==
    IF Len(ranges) = 1 THEN ranges[1].lower
    ELSE LET rest == LowestLower(Tail(ranges))
         IN IF ranges[1].lower < rest THEN ranges[1].lower ELSE rest

RECURSIVE HighestUpper(_)
HighestUpper(ranges) ==
    IF Len(ranges) = 1 THEN ranges[1].upper
    ELSE LET rest == HighestUpper(Tail(ranges))
         IN IF ranges[1].upper > rest THEN ranges[1].upper ELSE rest

get_available_vids(g, table) ==
    IF g.vid_ranges = <<>> THEN <<>>
    ELSE Sorted(RangesUnion(g.vid_ranges) \ GroupVids(table, g.pk),
                LowestLower(g.vid_ranges), HighestUpper(g.vid_ranges))

\* <<vid>>, or <<>> for None
get_next_available_vid(g, table) ==
    LET available_vids == get_available_vids(g, table)
    IN IF available_vids # <<>> THEN << available_vids[1] >> ELSE <<>>

\* what PostgreSQL keeps of an int4range and hands back: the canonical [lower, upper)
EmptyRange == [lower |-> 0, upper |-> 0, lower_inc |-> FALSE, upper_inc |-> FALSE]
Canonical(r) ==
    IF lower_vid(r) > upper_vid(r) THEN EmptyRange
    ELSE NumericRange(lower_vid(r), upper_vid(r) + 1, <<"[", ")">>)
CanonicalRanges(ranges) == [i \in 1..Len(ranges) |-> Canonical(ranges[i])]

\* a row of the table from an instance, and back
GroupRow(g) ==
    [name |-> g.name, slug |-> g.slug, scope_type |-> g.scope_type, scope_id |-> g.scope_id,
     vid_ranges |-> CanonicalRanges(g.vid_ranges), total_vlan_ids |-> g.total_vlan_ids]
GroupInstance(pk, row) ==
    [pk |-> pk, name |-> row.name, slug |-> row.slug, scope_type |-> row.scope_type,
     scope_id |-> row.scope_id, vid_ranges |-> row.vid_ranges,
     total_vlan_ids |-> row.total_vlan_ids]

\* VLANGroup(name=..., slug=..., scope=..., vid_ranges=...): the field defaults
NewGroup(name, slug, scope_type, scope_id, ranges) ==
    [pk |-> None, name |-> name, slug |-> slug, scope_type |-> scope_type,
     scope_id |-> scope_id, vid_ranges |-> ranges,
     total_vlan_ids |-> VLAN_VID_MAX - VLAN_VID_MIN + 1]

\* Meta.constraints of VLANGroup: a column that is NULL never equals another
GroupUniqueScopeName(table, g) ==
    \A pk \in DOMAIN table \ {g.pk} :
        ~ /\ g.scope_type # "none" /\ g.scope_id # None
          /\ table[pk].scope_type = g.scope_type
          /\ table[pk].scope_id = g.scope_id
          /\ table[pk].name = g.name
GroupUniqueScopeSlug(table, g) ==
    \A pk \in DOMAIN table \ {g.pk} :
        ~ /\ g.scope_type # "none" /\ g.scope_id # None
          /\ table[pk].scope_type = g.scope_type
          /\ table[pk].scope_id = g.scope_id
          /\ table[pk].slug = g.slug

----------------------------------------------------------------------------
(* VLAN *)

\* the directory of dcim: the sites, and the sites of each site group
Sites == {1, 2}
SiteGroupSites == (1 :> {1}) @@ (2 :> {})

\* group.scope, the GenericForeignKey: the pk of the object scope_type and scope_id
\* name, None when there is none
GroupScope(g) ==
    IF g.scope_type = "site" /\ g.scope_id \in Sites THEN g.scope_id
    ELSE IF g.scope_type = "sitegroup" /\ g.scope_id \in DOMAIN SiteGroupSites THEN g.scope_id
    ELSE IF g.scope_type = "region" THEN g.scope_id
    ELSE None

AttributeError == [field |-> "", code |-> "AttributeError"]

\* any([self.vid in r for r in self.group.vid_ranges])
VidPermitted(v, g) ==
    \E i \in 1..Len(g.vid_ranges) : RangeContains(g.vid_ranges[i], v.vid)

\* the Q-in-Q checks with the second one left out
QinQ_clean_first_only(v) ==
    IF v.qinq_svlan # None /\ v.qinq_role # "customer"
        THEN ValidationError("qinq_svlan", "InvalidCustomerAssignment")
    ELSE Ok

\* the two Q-in-Q checks that end VLAN.clean
QinQ_clean(v) ==
    IF v.qinq_svlan # None /\ v.qinq_role # "customer"
        THEN ValidationError("qinq_svlan", "InvalidCustomerAssignment")
    ELSE IF v.qinq_role = "customer" /\ v.qinq_svlan = None
        THEN ValidationError("qinq_role", "MissingServiceVlan")
    ELSE Ok

\* the scope checks with the site group read as a site
Scope_clean_site_only(v, g) ==
    IF v.site # None /\ g.scope_type \in {"site", "sitegroup"} /\ v.site # GroupScope(g)
        THEN ValidationError("__all__", "GroupSiteMismatch")
    ELSE Ok

\* the two scope checks that open VLAN.clean, for a VLAN that has a group
Scope_clean(v, g) ==
    IF v.site # None /\ g.scope_type = "site" /\ v.site # GroupScope(g)
        THEN ValidationError("__all__", "GroupSiteMismatch")
    ELSE IF v.site # None /\ g.scope_type = "sitegroup"
        THEN IF GroupScope(g) = None THEN AttributeError
             ELSE IF v.site \notin SiteGroupSites[GroupScope(g)]
                THEN ValidationError("__all__", "SiteNotInGroupScope")
             ELSE Ok
    ELSE Ok

\* VLAN.clean, with the table of groups self.group is read from
VLAN_clean(v, gtable) ==
    IF v.group # None /\ Scope_clean(v, gtable[v.group]) # Ok
        THEN Scope_clean(v, gtable[v.group])
    ELSE IF v.group # None /\ ~VidPermitted(v, gtable[v.group])
        THEN ValidationError("vid", "VidOutOfGroupRange")
    ELSE QinQ_clean(v)

\* Meta.constraints of VLAN, each for the row v against the other rows of the table:
\* a column that is NULL never equals another
unique_group_vid(table, v) ==
    \A pk \in DOMAIN table \ {v.pk} :
        ~(v.group # None /\ table[pk].group = v.group /\ table[pk].vid = v.vid)
unique_group_name_missing(table, v) == TRUE
unique_group_name(table, v) ==
    \A pk \in DOMAIN table \ {v.pk} :
        ~(v.group # None /\ table[pk].group = v.group /\ table[pk].name = v.name)
unique_qinq_svlan_vid(table, v) ==
    \A pk \in DOMAIN table \ {v.pk} :
        ~(v.qinq_svlan # None /\ table[pk].qinq_svlan = v.qinq_svlan /\ table[pk].vid = v.vid)
unique_qinq_svlan_name(table, v) ==
    \A pk \in DOMAIN table \ {v.pk} :
        ~(v.qinq_svlan # None /\ table[pk].qinq_svlan = v.qinq_svlan /\ table[pk].name = v.name)

\* the database's verdict on the insert or update of v with the unique_group_vid
\* constraint not there
VlanConstraints_no_group_vid(table, v) ==
    IF ~unique_group_name(table, v) THEN IntegrityError("unique_group_name")
    ELSE IF ~unique_qinq_svlan_vid(table, v) THEN IntegrityError("unique_qinq_svlan_vid")
    ELSE IF ~unique_qinq_svlan_name(table, v) THEN IntegrityError("unique_qinq_svlan_name")
    ELSE Ok

\* the database's verdict on the insert or update of v
VlanConstraints(table, v) ==
    IF ~unique_group_vid(table, v) THEN IntegrityError("unique_group_vid")
    ELSE IF ~unique_group_name(table, v) THEN IntegrityError("unique_group_name")
    ELSE IF ~unique_qinq_svlan_vid(table, v) THEN IntegrityError("unique_qinq_svlan_vid")
    ELSE IF ~unique_qinq_svlan_name(table, v) THEN IntegrityError("unique_qinq_svlan_name")
    ELSE Ok

VlanRow(v) ==
    [site |-> v.site, group |-> v.group, vid |-> v.vid, name |-> v.name,
     qinq_svlan |-> v.qinq_svlan, qinq_role |-> v.qinq_role]
VlanInstance(pk, row) ==
    [pk |-> pk, site |-> row.site, group |-> row.group, vid |-> row.vid, name |-> row.name,
     qinq_svlan |-> row.qinq_svlan, qinq_role |-> row.qinq_role]

----------------------------------------------------------------------------
(* Bounds and inputs *)

MaxRanges == 2
MaxGroups == 2
MaxVlans == 2

GroupPks == 1..MaxGroups
VlanPks == 1..MaxVlans
Callers == {1, 2}

RECURSIVE SeqsUpTo(_, _)
SeqsUpTo(S, n) ==
    IF n = 0 THEN { <<>> }
    ELSE LET shorter == SeqsUpTo(S, n - 1)
         IN shorter \cup { Append(q, x) : q \in { t \in shorter : Len(t) = n - 1 }, x \in S }

\* the endpoints and the ranges a caller may write
EndpointInputs == {0, 1, 2}
SmallRanges ==
    { NumericRange(l, u, b) : l \in EndpointInputs, u \in EndpointInputs, b \in BoundsKinds }
Closed(l, u) == NumericRange(l, u, <<"[", "]">>)
ExampleRangeLists ==
    { default_vid_ranges,
      << NumericRange(VLAN_VID_MIN, VLAN_VID_MAX + 1, <<"[", ")">>) >>,
      << Closed(VLAN_VID_MIN, VLAN_VID_MAX + 1) >>,
      << NumericRange(0, VLAN_VID_MAX, <<"(", "]">>) >>,
      << Closed(1, 10) >>, << NumericRange(1, 11, <<"[", ")">>) >>,
      << Closed(0, 10) >>, << Closed(10, 1) >>,
      << Closed(1, 10), Closed(5, 15) >>, << Closed(1, 10), Closed(11, 20) >>,
      << Closed(1, 10), Closed(100, 200) >> }
RangeListInputs == SeqsUpTo(SmallRanges, MaxRanges) \cup ExampleRangeLists

\* the scopes a caller may give a group: none, a site, and the two halves of one
ScopeInputs == { <<"none", None>>, <<"site", 1>>, <<"site", None>>, <<"none", 1>> }

NoVlan ==
    [pk |-> None, site |-> None, group |-> None, vid |-> 0, name |-> "",
     qinq_svlan |-> None, qinq_role |-> "none"]

\* the part of a state that a specification leaves alone
Quiet ==
    /\ cleaned = NotRun
    /\ saved = NotRun
    /\ available = <<>>
    /\ next = <<>>
    /\ vlan = [c \in Callers |-> NoVlan]
    /\ result = [c \in Callers |-> NotRun]

----------------------------------------------------------------------------
(* The operations on a VLANGroup instance *)

\* group.vid_ranges = ranges
GroupSetRanges(ranges) ==
    /\ group' = [group EXCEPT !.vid_ranges = ranges]
    /\ cleaned' = NotRun
    /\ saved' = NotRun
    /\ UNCHANGED <<groups, vlans, available, next, vlan, result>>

\* group.clean()
GroupClean ==
    /\ cleaned' = VLANGroup_clean(group)
    /\ UNCHANGED <<groups, vlans, group, saved, available, next, vlan, result>>

FreeGroupPks == GroupPks \ DOMAIN groups

\* group.save(): the capacity, then Model.save(), which inserts or updates the row
\* unless the database refuses it
GroupSave ==
    LET inst == [group EXCEPT !.total_vlan_ids = total_vlan_ids(group.vid_ranges)]
        pk == IF inst.pk = None THEN SetMin(FreeGroupPks) ELSE inst.pk
        refused ==
            IF \E i \in 1..Len(inst.vid_ranges) : inst.vid_ranges[i].lower > inst.vid_ranges[i].upper
                THEN DataError
            ELSE IF ~GroupUniqueScopeName(groups, inst) THEN IntegrityError("unique_scope_name")
            ELSE IF ~GroupUniqueScopeSlug(groups, inst) THEN IntegrityError("unique_scope_slug")
            ELSE Ok
    IN /\ inst.pk # None \/ FreeGroupPks # {}
       /\ saved' = refused
       /\ IF refused = Ok
            THEN /\ groups' = (pk :> GroupRow(inst)) @@ groups
                 /\ group' = [inst EXCEPT !.pk = pk]
            ELSE /\ groups' = groups
                 /\ group' = inst
       /\ UNCHANGED <<vlans, cleaned, available, next, vlan, result>>

\* group.get_available_vids()
GetAvailableVids ==
    /\ available' = << get_available_vids(group, vlans) >>
    /\ UNCHANGED <<groups, vlans, group, cleaned, saved, next, vlan, result>>

\* group.get_next_available_vid()
GetNextAvailableVid ==
    /\ next' = << get_next_available_vid(group, vlans) >>
    /\ UNCHANGED <<groups, vlans, group, cleaned, saved, available, vlan, result>>

----------------------------------------------------------------------------
(* The operations on a VLAN instance *)

Saved == [field |-> "", code |-> "saved"]
Deleted == [field |-> "", code |-> "deleted"]
ProtectedError == [field |-> "qinq_svlan", code |-> "ProtectedError"]

FreeVlanPks == VlanPks \ DOMAIN vlans

\* a VLAN instance with these fields and no pk
NewVlan(site, gpk, vid, name, qinq_svlan, qinq_role) ==
    [pk |-> None, site |-> site, group |-> gpk, vid |-> vid, name |-> name,
     qinq_svlan |-> qinq_svlan, qinq_role |-> qinq_role]

\* vlan = VLAN(...), one of insts
VlanNew(c, insts) ==
    /\ \E inst \in insts : vlan' = [vlan EXCEPT ![c] = inst]
    /\ result' = [result EXCEPT ![c] = NotRun]
    /\ UNCHANGED <<groups, vlans, group, cleaned, saved, available, next>>

\* vlan = VLAN.objects.get(pk=pk)
VlanGet(c, pk) ==
    /\ pk \in DOMAIN vlans
    /\ vlan' = [vlan EXCEPT ![c] = VlanInstance(pk, vlans[pk])]
    /\ result' = [result EXCEPT ![c] = NotRun]
    /\ UNCHANGED <<groups, vlans, group, cleaned, saved, available, next>>

\* the fields of vlan set to those of one of insts, its pk kept
VlanSet(c, insts) ==
    /\ vlan[c] # NoVlan
    /\ \E inst \in insts : vlan' = [vlan EXCEPT ![c] = [inst EXCEPT !.pk = vlan[c].pk]]
    /\ result' = [result EXCEPT ![c] = NotRun]
    /\ UNCHANGED <<groups, vlans, group, cleaned, saved, available, next>>

\* vlan.clean()
VlanClean(c) ==
    /\ vlan[c] # NoVlan
    /\ result' = [result EXCEPT ![c] = VLAN_clean(vlan[c], groups)]
    /\ UNCHANGED <<groups, vlans, group, cleaned, saved, available, next, vlan>>

\* inst.save() by caller c: Model.save() inserts or updates the row unless the
\* database refuses it
SaveVlan(c, inst) ==
    LET pk == IF inst.pk = None THEN SetMin(FreeVlanPks) ELSE inst.pk
        verdict == VlanConstraints(vlans, inst)
    IN /\ inst.pk # None \/ FreeVlanPks # {}
       /\ IF verdict = Ok
            THEN /\ vlans' = (pk :> VlanRow(inst)) @@ vlans
                 /\ result' = [result EXCEPT ![c] = Saved]
            ELSE /\ vlans' = vlans
                 /\ result' = [result EXCEPT ![c] = verdict]
       /\ UNCHANGED <<groups, group, cleaned, saved, available, next>>

\* vlan.save() on the instance the caller holds
VlanSave(c) ==
    /\ vlan[c] # NoVlan
    /\ SaveVlan(c, vlan[c])
    /\ vlan' = [vlan EXCEPT ![c].pk =
                    IF VlanConstraints(vlans, vlan[c]) = Ok /\ vlan[c].pk = None
                        THEN SetMin(FreeVlanPks) ELSE vlan[c].pk]

\* vlan.save() once vlan.clean() has passed
VlanSaveCleaned(c) ==
    /\ result[c] = Ok
    /\ VlanSave(c)

\* VLAN(...).save() or VLAN.objects.get(pk=...)...save() in one request, the instance
\* dropped at its end
VlanSaveOnce(c, insts) ==
    /\ \E inst \in insts : SaveVlan(c, inst)
    /\ UNCHANGED vlan

\* VLAN.objects.get(pk=pk).delete(): qinq_svlan is on_delete=PROTECT
VlanDelete(c, pk) ==
    /\ pk \in DOMAIN vlans
    /\ IF \E q \in DOMAIN vlans : vlans[q].qinq_svlan = pk
        THEN /\ vlans' = vlans
             /\ result' = [result EXCEPT ![c] = ProtectedError]
        ELSE /\ vlans' = [q \in DOMAIN vlans \ {pk} |-> vlans[q]]
             /\ result' = [result EXCEPT ![c] = Deleted]
    /\ UNCHANGED <<groups, group, cleaned, saved, available, next, vlan>>

----------------------------------------------------------------------------
(* SpecClean: VLANGroup.clean on every group a caller can build *)

InitClean ==
    /\ groups = <<>>
    /\ vlans = <<>>
    /\ \E ranges \in RangeListInputs, scope \in ScopeInputs :
            group = NewGroup("a", "a", scope[1], scope[2], ranges)
    /\ Quiet

NextClean == GroupClean

SpecClean == InitClean /\ [][NextClean]_vars

----------------------------------------------------------------------------
(* SpecAlloc: capacity and free VIDs of a group, for every vid_ranges a caller can  *)
(* write and several sets of VLANs bound to the group                               *)

VlanNames == <<"a", "b", "c", "d">>

\* the VLANs bound to the group: one row per VID taken
AssignedInputs == { {}, {1}, {2}, {1, 2}, {1, 2, 3}, {1, 2, 3, 4} }
BoundVlans(gpk, vids) ==
    [pk \in vids |->
        [site |-> None, group |-> gpk, vid |-> pk, name |-> VlanNames[pk],
         qinq_svlan |-> None, qinq_role |-> "none"]]

DefaultGroup == NewGroup("a", "a", "none", None, default_vid_ranges)

InitAlloc ==
    /\ groups = (1 :> GroupRow(DefaultGroup))
    /\ \E vids \in AssignedInputs : vlans = BoundVlans(1, vids)
    /\ \E ranges \in RangeListInputs :
            group = [GroupInstance(1, GroupRow(DefaultGroup)) EXCEPT !.vid_ranges = ranges]
    /\ Quiet

NextAlloc ==
    \/ GroupClean
    \/ GroupSave
    \/ GetAvailableVids
    \/ GetNextAvailableVid

SpecAlloc == InitAlloc /\ [][NextAlloc]_vars

----------------------------------------------------------------------------
(* SpecEdit: one group, its vid_ranges edited, validated and saved in any order *)

EditRanges ==
    { Closed(1, 2), Closed(2, 3), NumericRange(1, 3, <<"[", ")">>), Closed(0, 1), Closed(2, 1) }
EditRangeLists == SeqsUpTo(EditRanges, MaxRanges)

InitEdit ==
    /\ groups = <<>>
    /\ vlans = <<>>
    /\ group = DefaultGroup
    /\ Quiet

NextEdit ==
    \/ \E ranges \in EditRangeLists : GroupSetRanges(ranges)
    \/ GroupClean
    \/ GroupSave

SpecEdit == InitEdit /\ [][NextEdit]_vars

----------------------------------------------------------------------------
(* SpecGroups: groups created and renamed, rescoped and saved *)

GroupNames == {"a", "b"}
GroupScopes == { <<"none", None>>, <<"site", 1>> }

\* group = VLANGroup(name=..., slug=..., scope=...)
GroupNew ==
    /\ \E name \in GroupNames, slug \in GroupNames, scope \in GroupScopes :
            group' = NewGroup(name, slug, scope[1], scope[2], default_vid_ranges)
    /\ cleaned' = NotRun
    /\ saved' = NotRun
    /\ UNCHANGED <<groups, vlans, available, next, vlan, result>>

\* group = VLANGroup.objects.get(pk=pk)
GroupGet(pk) ==
    /\ pk \in DOMAIN groups
    /\ group' = GroupInstance(pk, groups[pk])
    /\ cleaned' = NotRun
    /\ saved' = NotRun
    /\ UNCHANGED <<groups, vlans, available, next, vlan, result>>

\* group.name, group.slug, group.scope = ...
GroupSetIdentity ==
    /\ \E name \in GroupNames, slug \in GroupNames, scope \in GroupScopes :
            group' = [group EXCEPT !.name = name, !.slug = slug,
                                   !.scope_type = scope[1], !.scope_id = scope[2]]
    /\ cleaned' = NotRun
    /\ saved' = NotRun
    /\ UNCHANGED <<groups, vlans, available, next, vlan, result>>

InitGroups ==
    /\ groups = <<>>
    /\ vlans = <<>>
    /\ group = DefaultGroup
    /\ Quiet

NextGroups ==
    \/ GroupNew
    \/ \E pk \in GroupPks : GroupGet(pk)
    \/ GroupSetIdentity
    \/ GroupClean
    \/ GroupSave

SpecGroups == InitGroups /\ [][NextGroups]_vars

----------------------------------------------------------------------------
(* SpecVlanStore: VLANs created, updated and deleted, none of them validated *)

StoreNames == {"a", "b"}
StoreVids == {1, 2}

\* one group, validated and saved with the ranges [1,2]
SmallGroup == [NewGroup("a", "a", "none", None, << Closed(1, 2) >>) EXCEPT !.total_vlan_ids = 2]

\* the instances a request may save: a new one, or one of the table with new fields
StoreInputs ==
    { [pk |-> pk, site |-> None, group |-> g, vid |-> vid, name |-> name,
       qinq_svlan |-> svlan, qinq_role |-> IF svlan = None THEN "none" ELSE "customer"] :
        pk \in {None} \cup DOMAIN vlans, g \in {None} \cup DOMAIN groups, vid \in StoreVids,
        name \in StoreNames, svlan \in {None} \cup DOMAIN vlans }

InitVlanStore ==
    /\ groups = (1 :> GroupRow(SmallGroup))
    /\ vlans = <<>>
    /\ group = DefaultGroup
    /\ Quiet

NextVlanStore ==
    \/ VlanSaveOnce(1, StoreInputs)
    \/ \E pk \in VlanPks : VlanDelete(1, pk)

SpecVlanStore == InitVlanStore /\ [][NextVlanStore]_vars

----------------------------------------------------------------------------
(* SpecRace: two callers that each take the next free VID of the same group,       *)
(* validate a new VLAN with it and save it                                        *)

\* vid = group.get_next_available_vid() on the group read from the table, then
\* vlan = VLAN(group=group, vid=vid, name=...)
CallerTakesNextVid(c, gpk) ==
    LET vid == get_next_available_vid(GroupInstance(gpk, groups[gpk]), vlans)
    IN /\ gpk \in DOMAIN groups
       /\ result[c].code \in {"not_run", "saved", "IntegrityError"}
       /\ vlan[c] = NoVlan \/ result[c] # NotRun
       /\ vid # <<>>
       /\ VlanNew(c, { NewVlan(None, gpk, vid[1], name, None, "none") : name \in StoreNames })

InitRace ==
    /\ groups = (1 :> GroupRow(SmallGroup))
    /\ vlans = <<>>
    /\ group = DefaultGroup
    /\ Quiet

NextRace ==
    \E c \in Callers :
        \/ CallerTakesNextVid(c, 1)
        \/ VlanClean(c)
        \/ VlanSaveCleaned(c)

SpecRace == InitRace /\ [][NextRace]_vars

----------------------------------------------------------------------------
(* SpecVlanClean: VLAN.clean on VLANs of every site, group and Q-in-Q setting *)

\* groups of every kind of scope, the last two with a scope that names nothing
ScopedGroups ==
    LET g(scope_type, scope_id) ==
            GroupRow([NewGroup("a", "a", scope_type, scope_id, << Closed(1, 2) >>)
                        EXCEPT !.total_vlan_ids = 2])
    IN << g("none", None), g("site", 1), g("sitegroup", 1), g("region", 1),
          g("sitegroup", 2), g("site", 3), g("sitegroup", 3) >>

ServiceVlan == VlanRow(NewVlan(None, None, 1, "s", None, "service"))

CleanInputs ==
    { NewVlan(site, g, vid, "a", svlan, role) :
        site \in {None} \cup Sites, g \in {None} \cup DOMAIN groups, vid \in {1, 5},
        svlan \in {None} \cup DOMAIN vlans, role \in {"none", "customer", "service"} }

InitVlanClean ==
    /\ groups = ScopedGroups
    /\ vlans = (1 :> ServiceVlan)
    /\ group = DefaultGroup
    /\ Quiet

NextVlanClean ==
    \/ VlanNew(1, CleanInputs)
    \/ VlanClean(1)

SpecVlanClean == InitVlanClean /\ [][NextVlanClean]_vars

----------------------------------------------------------------------------
(* SpecQinQ: two VLANs read, updated and saved, each save after a clean that passed *)

QinQInputs ==
    { NewVlan(None, g, vid, "a", svlan, role) :
        g \in {None} \cup DOMAIN groups, vid \in {1, 5},
        svlan \in {None} \cup DOMAIN vlans, role \in {"none", "customer", "service"} }

InitQinQ ==
    /\ groups = (1 :> GroupRow(SmallGroup))
    /\ vlans = (1 :> ServiceVlan) @@ (2 :> VlanRow(NewVlan(None, None, 5, "a", None, "none")))
    /\ group = DefaultGroup
    /\ Quiet

NextQinQ ==
    \/ \E pk \in VlanPks : VlanGet(1, pk)
    \/ VlanSet(1, QinQInputs)
    \/ VlanClean(1)
    \/ VlanSaveCleaned(1)

SpecQinQ == InitQinQ /\ [][NextQinQ]_vars

----------------------------------------------------------------------------
(* SpecValidated: a group and its VLANs, every save after a clean that passed *)

\* group.save() once group.clean() has passed
GroupSaveCleaned ==
    /\ cleaned = Ok
    /\ GroupSave

\* vlan.save() once vlan.clean() has passed, no group saved between the two
VlanSaveValidated(c) ==
    /\ VLAN_clean(vlan[c], groups) = Ok
    /\ VlanSaveCleaned(c)

ValidatedInputs ==
    { NewVlan(None, 1, vid, VlanNames[vid], None, "none") : vid \in 1..3 }
ValidatedRangeLists == EditRangeLists \ { <<>> }

InitValidated ==
    /\ groups = (1 :> GroupRow(DefaultGroup))
    /\ vlans = <<>>
    /\ group = GroupInstance(1, GroupRow(DefaultGroup))
    /\ Quiet

NextValidated ==
    \/ \E ranges \in ValidatedRangeLists : GroupSetRanges(ranges)
    \/ GroupClean
    \/ GroupSaveCleaned
    \/ VlanNew(1, ValidatedInputs)
    \/ VlanClean(1)
    \/ VlanSaveValidated(1)

SpecValidated == InitValidated /\ [][NextValidated]_vars

\* the integers of an interval, by its inclusive ends
EffectiveLow(r) == r.lower + (IF r.lower_inc THEN 0 ELSE 1)
EffectiveHigh(r) == r.upper - (IF r.upper_inc THEN 0 ELSE 1)
OutOfBounds(r) == EffectiveLow(r) < 1 \/ EffectiveHigh(r) > 4094
Inverted(r) == EffectiveLow(r) > EffectiveHigh(r)
WithinBounds(r) == 1 <= EffectiveLow(r) /\ EffectiveLow(r) <= EffectiveHigh(r) /\ EffectiveHigh(r) <= 4094
ShareAnInteger(r1, r2) ==
    \E x \in {EffectiveLow(r1), EffectiveLow(r2)} :
        /\ EffectiveLow(r1) <= x /\ x <= EffectiveHigh(r1)
        /\ EffectiveLow(r2) <= x /\ x <= EffectiveHigh(r2)
ValidRanges(ranges) ==
    /\ \A i \in 1..Len(ranges) : WithinBounds(ranges[i])
    /\ \A i, j \in 1..Len(ranges) : i # j => ~ShareAnInteger(ranges[i], ranges[j])
ScopeComplete(g) == (g.scope_type = "none") <=> (g.scope_id = None)
\* the first interval of the list that is out of bounds or inverted
FirstBad(ranges) ==
    ranges[SetMin({ i \in 1..Len(ranges) : ~WithinBounds(ranges[i]) })]

\* C8: VLANGroup.clean accepts the vid_ranges of a group (whose scope is whole) if and
\* only if every interval, by its inclusive ends, has 1 <= low <= high <= 4094 and no
\* two intervals share an integer; every rejection is on the vid_ranges field; the
\* first interval at fault is reported as out of bounds when its low is under 1 or its
\* high over 4094, as inverted otherwise, and intervals that are all well formed but
\* share an integer are reported as overlapping.
C8_CleanAcceptsExactlyValidRanges ==
    (cleaned # NotRun /\ ScopeComplete(group)) =>
        /\ (cleaned = Ok) <=> ValidRanges(group.vid_ranges)
        /\ cleaned # Ok => cleaned.field = "vid_ranges"
        /\ (\E i \in 1..Len(group.vid_ranges) : ~WithinBounds(group.vid_ranges[i])) =>
                cleaned.code = (IF OutOfBounds(FirstBad(group.vid_ranges))
                                    THEN "OutOfBounds" ELSE "InvertedRange")
        /\ ( /\ \A i \in 1..Len(group.vid_ranges) : WithinBounds(group.vid_ranges[i])
             /\ ~ValidRanges(group.vid_ranges) ) => cleaned.code = "Overlap"

\* [1,10] with [5,15] was refused as overlapping
C8_Witness ==
    /\ group.vid_ranges = << NumericRange(1, 10, <<"[", "]">>), NumericRange(5, 15, <<"[", "]">>) >>
    /\ cleaned = ValidationError("vid_ranges", "Overlap")

\* the other cases the claim names: [1,10] with [11,20] accepted, [0,10] out of
\* bounds, [10,1] inverted
C8_Examples ==
    cleaned # NotRun /\ ScopeComplete(group) =>
        /\ group.vid_ranges = << NumericRange(1, 10, <<"[", "]">>), NumericRange(11, 20, <<"[", "]">>) >>
                => cleaned = Ok
        /\ group.vid_ranges = << NumericRange(0, 10, <<"[", "]">>) >>
                => cleaned = ValidationError("vid_ranges", "OutOfBounds")
        /\ group.vid_ranges = << NumericRange(10, 1, <<"[", "]">>) >>
                => cleaned = ValidationError("vid_ranges", "InvertedRange")

RECURSIVE SumOfSizes(_)
SumOfSizes(ranges) ==
    IF ranges = <<>> THEN 0
    ELSE (EffectiveHigh(Head(ranges)) - EffectiveLow(Head(ranges)) + 1) + SumOfSizes(Tail(ranges))

\* the integers that belong to at least one interval of the list
Members(ranges) ==
    IF ranges = <<>> THEN {}
    ELSE { x \in LowestLower(ranges)..HighestUpper(ranges) :
            \E i \in 1..Len(ranges) :
                EffectiveLow(ranges[i]) <= x /\ x <= EffectiveHigh(ranges[i]) }
IsAscending(list) == \A i \in 1..(Len(list) - 1) : list[i] < list[i + 1]
Elements(list) == { list[i] : i \in 1..Len(list) }

\* C1: for a group whose vid_ranges passed clean, the capacity save stored is the sum
\* of (high - low + 1) over the intervals' inclusive ends, and, with no VLAN bound to
\* the group, it is the length of the list get_available_vids returns.
C1_CapacityIsSumAndCountOfFree ==
    (cleaned = Ok /\ saved = Ok) =>
        /\ groups[group.pk].total_vlan_ids = SumOfSizes(group.vid_ranges)
        /\ (available # <<>> /\ GroupVids(vlans, group.pk) = {}) =>
                Len(available[1]) = groups[group.pk].total_vlan_ids

\* C2: get_available_vids returns, ascending and without duplicates, exactly the
\* integers of the group's intervals that no VLAN bound to the group has as its vid,
\* and get_next_available_vid the smallest of them, None exactly when there is none
\* (stated here of the groups whose vid_ranges passed clean).
C2_AvailableAreTheFreeMembers ==
    LET free == Members(group.vid_ranges) \ GroupVids(vlans, group.pk)
    IN cleaned = Ok =>
        /\ available # <<>> =>
                /\ IsAscending(available[1])
                /\ Elements(available[1]) = free
        /\ next # <<>> =>
                /\ (next[1] = <<>>) <=> (free = {})
                /\ next[1] # <<>> => next[1][1] = SetMin(free)

\* C3: in every reachable state the capacity a group has in the table was computed
\* from vid_ranges that pass VLANGroup.clean: no sequence of range edits and saves
\* stores a group whose ranges are out of bounds, inverted or overlapping.
C3_StoredCapacityFromValidRanges ==
    \A pk \in DOMAIN groups : ValidRanges(groups[pk].vid_ranges)

\* C7: no two groups of the table with the same scope (scope_type and scope_id, both
\* NULL included) share a name or share a slug.
C7_UniquePerScopeNullIncluded ==
    \A p, q \in DOMAIN groups :
        (p # q /\ groups[p].scope_type = groups[q].scope_type
               /\ groups[p].scope_id = groups[q].scope_id) =>
            /\ groups[p].name # groups[q].name
            /\ groups[p].slug # groups[q].slug

\* no two rows with the same non-NULL group, and none with the same non-NULL
\* qinq_svlan, share a vid or share a name
VlansUnique(table) ==
    \A p, q \in DOMAIN table :
        p # q =>
            /\ (table[p].group # None /\ table[p].group = table[q].group) =>
                    (table[p].vid # table[q].vid /\ table[p].name # table[q].name)
            /\ (table[p].qinq_svlan # None /\ table[p].qinq_svlan = table[q].qinq_svlan) =>
                    (table[p].vid # table[q].vid /\ table[p].name # table[q].name)

\* C4: after any sequence of VLAN creates, updates and deletes no two rows with the
\* same non-NULL group share a vid or a name, and none with the same non-NULL
\* qinq_svlan do; a save the database refuses leaves the table as it was.
C4_UniqueWithinGroupAndServiceVlan ==
    /\ [](VlansUnique(vlans))
    /\ [][result'[1].code = "IntegrityError" => vlans' = vlans]_vars

\* a save was refused for a (group, vid) that a row of the table already has
C4_Witness ==
    /\ result[1] = IntegrityError("unique_group_vid")
    /\ \E p \in DOMAIN vlans : vlans[p].group # None

\* rows without a group may share vid and name
C4_NullGroupsShare ==
    \E p, q \in DOMAIN vlans :
        /\ p # q
        /\ vlans[p].group = None /\ vlans[q].group = None
        /\ vlans[p].vid = vlans[q].vid /\ vlans[p].name = vlans[q].name

\* C5: two callers that took the same next free VID of a group and both passed
\* VLAN.clean: at most one of the two saves succeeds, and the table never holds two
\* VLANs of one group with the same vid.
C5_AtMostOneCommitPerGroupVid ==
    /\ \A p, q \in DOMAIN vlans :
            (p # q /\ vlans[p].group # None /\ vlans[p].group = vlans[q].group) =>
                vlans[p].vid # vlans[q].vid
    /\ \A c, d \in Callers :
            ( /\ c # d
              /\ vlan[c].group # None
              /\ vlan[c].group = vlan[d].group
              /\ vlan[c].vid = vlan[d].vid
              /\ result[c] = Saved ) => result[d] # Saved

\* both callers held the same (group, vid); one saved it and the other was refused
C5_Witness ==
    /\ vlan[1].group = 1 /\ vlan[2].group = 1
    /\ vlan[1].vid = vlan[2].vid
    /\ result[1] = Saved
    /\ result[2] = IntegrityError("unique_group_vid")

\* what a clean() leaves in result, as against a save, a delete or nothing yet
IsCleanOutcome(r) == r.code \notin {"not_run", "saved", "deleted", "IntegrityError", "ProtectedError"}

\* the VLAN has no group, or its vid is an integer of one of the group's intervals
InGroupRanges(v) ==
    v.group # None =>
        \E i \in 1..Len(groups[v.group].vid_ranges) :
            /\ EffectiveLow(groups[v.group].vid_ranges[i]) <= v.vid
            /\ v.vid <= EffectiveHigh(groups[v.group].vid_ranges[i])

C6_CleanedAndStored ==
    LET v == vlan[1]
        r == result[1]
    IN /\ r = Ok => ((v.qinq_svlan # None) <=> (v.qinq_role = "customer"))
       /\ (IsCleanOutcome(r) /\ v.qinq_svlan # None /\ v.qinq_role # "customer") =>
            /\ r # Ok
            /\ InGroupRanges(v) => r = ValidationError("qinq_svlan", "InvalidCustomerAssignment")
       /\ (IsCleanOutcome(r) /\ v.qinq_svlan = None /\ v.qinq_role = "customer") =>
            /\ r # Ok
            /\ InGroupRanges(v) => r = ValidationError("qinq_role", "MissingServiceVlan")
       /\ \A pk \in DOMAIN vlans :
            (vlans[pk].qinq_svlan # None) <=> (vlans[pk].qinq_role = "customer")

C6_BothFieldsInOneUpdate ==
    \A pk \in DOMAIN vlans \cap DOMAIN vlans' :
        (vlans[pk].qinq_svlan = None /\ vlans'[pk].qinq_svlan # None) =>
            (vlans[pk].qinq_role # "customer" /\ vlans'[pk].qinq_role = "customer")

\* C6: a VLAN that passes VLAN.clean has qinq_svlan set if and only if its qinq_role
\* is customer; qinq_svlan with another role never passes and is refused on the
\* qinq_svlan field, the customer role without qinq_svlan never passes and is refused
\* on the qinq_role field (each when the checks before it pass, clean raising the
\* first error it finds); so with every save after a clean that passed, the rows of
\* the table keep the equivalence and a row goes from unassigned to customer of a
\* service VLAN only by an update that sets both fields.
C6_ServiceVlanIffCustomer ==
    /\ [](C6_CleanedAndStored)
    /\ [][C6_BothFieldsInOneUpdate]_vars

\* VLAN 2, unassigned at first, was saved as a customer of VLAN 1
C6_Witness ==
    /\ vlans[2].qinq_svlan = 1
    /\ vlans[2].qinq_role = "customer"
    /\ result[1] = Saved

ScopeIsSite(g) == g.scope_type = "site" /\ g.scope_id \in Sites
ScopeIsSiteGroup(g) == g.scope_type = "sitegroup" /\ g.scope_id \in DOMAIN SiteGroupSites
ScopeCheckFailed(r) == r.code \in {"GroupSiteMismatch", "SiteNotInGroupScope"}

\* C9: with group and site both set, a group scoped to a site refuses every other
\* site (GroupSiteMismatch), a group scoped to a site group refuses every site that
\* is not one of its members (SiteNotInGroupScope), and no scope check fails when the
\* site is the scope's or a member of it, when the group has no scope or one of
\* another kind, or when group or site is unset.
C9_ScopeCrossCheck ==
    LET v == vlan[1]
        r == result[1]
    IN IsCleanOutcome(r) =>
        IF v.group = None \/ v.site = None THEN ~ScopeCheckFailed(r)
        ELSE IF ScopeIsSite(groups[v.group])
            THEN IF v.site # groups[v.group].scope_id
                    THEN r = ValidationError("__all__", "GroupSiteMismatch")
                    ELSE ~ScopeCheckFailed(r)
        ELSE IF ScopeIsSiteGroup(groups[v.group])
            THEN IF v.site \notin SiteGroupSites[groups[v.group].scope_id]
                    THEN r = ValidationError("__all__", "SiteNotInGroupScope")
                    ELSE ~ScopeCheckFailed(r)
        ELSE groups[v.group].scope_type \in {"none", "region"} => ~ScopeCheckFailed(r)

\* a VLAN of site 2 was refused in a group scoped to site group 1, whose site is 1
C9_Witness ==
    /\ vlan[1].group = 3 /\ vlan[1].site = 2
    /\ result[1] = ValidationError("__all__", "SiteNotInGroupScope")

\* C10: with every save after a clean that passed, edits of a group's vid_ranges
\* included, every VLAN of the table that has a group has its vid inside one of the
\* intervals the group now has.
C10_StoredVidsInsideGroupRanges ==
    \A pk \in DOMAIN vlans : InGroupRanges(vlans[pk])

====
